---- MODULE Spec2Model ----
(***************************************************************************)
(* State-machine model of the fintech analytics dashboard:                 *)
(*   setup_database.py  (create_database: the schema provisioner)          *)
(*   generate_data.py   (main and the generate_* steps: the only writer)   *)
(*   database.py        (the read-only query layer)                        *)
(*   dashboard.py       (one run of the Streamlit script)                  *)
(*                                                                         *)
(* Money is kept in integer cents (the generator rounds every amount to    *)
(* two decimals), timestamps in whole minutes since day 0, percentages in  *)
(* hundredths of a percent (every rate is ROUND(..., 2)).  Columns that no *)
(* statement reads (name, phone, description, created_at) are left out.    *)
(***************************************************************************)
EXTENDS Integers, Sequences, FiniteSets, TLC

(***************************************************************************)
(* Bounds of the model.                                                    *)
(***************************************************************************)
\* stands for NUM_CUSTOMERS (500): iterations of the customer loop
NumCustomers == 2
\* stands for NUM_MERCHANTS (50): iterations of the merchant loop
NumMerchants == 2
\* stands for NUM_TRANSACTIONS (10000): iterations of the transaction loop
NumTransactions == 2
\* invocations of generate_data.main between two provisionings
MaxRuns == 2

(***************************************************************************)
(* Program constants.                                                      *)
(***************************************************************************)
PAYMENT_METHODS == <<"pix", "credit_card", "debit_card", "boleto">>
STATUSES == <<"approved", "declined", "pending", "refunded">>
CATEGORIES == {"Supermercado", "Restaurante"}
\* timedelta(days=90) of generate_transactions
WindowDays == 90
\* 25000.00, the injected high-value amount, in cents
HighValueAmount == 2500000
\* range(10): rows of the injected burst
BurstSize == 10
\* timedelta(minutes=i*2)
BurstSpacing == 2
\* timedelta(hours=2) and timedelta(hours=1) of generate_anomalies, in minutes
HighValueAge == 120
BurstAge == 60
\* LIMIT 50 of both anomaly queries
AnomalyLimit == 50
\* get_anomalies defaults: threshold_amount=10000 (in cents), threshold_frequency=5
DefaultThresholdAmount == 1000000
DefaultThresholdFrequency == 5

MinutesPerHour == 60
MinutesPerDay == 24 * MinutesPerHour

(***************************************************************************)
(* Time.  A timestamp is a number of minutes; DATE(ts) is its day number,  *)
(* strftime('%H', ts) its hour of day, strftime('%Y-%m-%d %H', ts) its     *)
(* hour number.                                                            *)
(***************************************************************************)
DateOf(ts) == ts \div MinutesPerDay
HourOf(ts) == (ts % MinutesPerDay) \div MinutesPerHour
HourWindow(ts) == ts \div MinutesPerHour
TimeOfDay(ts) == ts % MinutesPerDay
At(day, hh, mm) == day * MinutesPerDay + hh * MinutesPerHour + mm

\* the instants at which the wall clock is read in a behaviour
NowChoices == {At(100, 0, 50), At(100, 10, 30)}

(***************************************************************************)
(* The random source.  Each draw of Faker / random is an element of a      *)
(* small set; an index draw i stands for random.choice(list) picking the   *)
(* element at position i modulo the list's length.                         *)
(***************************************************************************)
\* fake.email(), fake.cpf()
CustomerDraws ==
    { [email |-> "e1", document |-> "cpf1"],
      [email |-> "e2", document |-> "cpf2"] }

\* random.choice(CATEGORIES), fake.cnpj()
MerchantDraws ==
    { [category |-> "Supermercado", document |-> "cnpj1"],
      [category |-> "Restaurante", document |-> "cnpj2"],
      [category |-> "Restaurante", document |-> "cnpj1"] }

\* one iteration of the transaction loop: the two random.choice indexes, the
\* amount (a point of one of the three uniform ranges), payment method,
\* status, int(random.triangular(0, 90, 0)), randint(6, 23), randint(0, 59)
TxDraws ==
    { [c |-> 0, m |-> 0, amount |-> 1000, payment_method |-> "pix",
       status |-> "approved", days_ago |-> 0, hours |-> 6, minutes |-> 0],
      [c |-> 1, m |-> 1, amount |-> 500000, payment_method |-> "credit_card",
       status |-> "declined", days_ago |-> 89, hours |-> 23, minutes |-> 59],
      [c |-> 0, m |-> 1, amount |-> 100000, payment_method |-> "debit_card",
       status |-> "pending", days_ago |-> 89, hours |-> 6, minutes |-> 0],
      [c |-> 1, m |-> 0, amount |-> 20000, payment_method |-> "boleto",
       status |-> "refunded", days_ago |-> 60, hours |-> 23, minutes |-> 59] }

\* generate_anomalies: the two random.choice indexes of the high-value insert
\* (hc, hm), the index of the burst's customer (c), and per burst row k the
\* merchant index, the amount (a point of uniform(100, 500)) and the index
\* into PAYMENT_METHODS
AnomalyDraws ==
    { [hc |-> 0, hm |-> 0, c |-> 0,
       m |-> [k \in 0..(BurstSize - 1) |-> 0],
       amount |-> [k \in 0..(BurstSize - 1) |-> 10000],
       method |-> [k \in 0..(BurstSize - 1) |-> 0]],
      [hc |-> 1, hm |-> 1, c |-> 1,
       m |-> [k \in 0..(BurstSize - 1) |-> k],
       amount |-> [k \in 0..(BurstSize - 1) |-> 50000],
       method |-> [k \in 0..(BurstSize - 1) |-> k]] }

\* random.choice(seq) for index draw i
Choice(seq, i) == seq[1 + (i % Len(seq))]

(***************************************************************************)
(* The database file.  db holds what is committed; conn is what the        *)
(* generator's connection sees inside its open transaction.  seq is        *)
(* sqlite_sequence: the AUTOINCREMENT counters, which DELETE leaves alone. *)
(***************************************************************************)
TableNames == {"customers", "merchants", "transactions"}
IndexNames == {"idx_transaction_date", "idx_transaction_status",
               "idx_transaction_method", "idx_customer_id", "idx_merchant_id"}
ViewNames == {"daily_summary", "merchant_performance"}

NoSchema == [tables |-> {}, indexes |-> {}, views |-> {}]
FullSchema == [tables |-> TableNames, indexes |-> IndexNames, views |-> ViewNames]

EmptySeq == [customers |-> 0, merchants |-> 0, transactions |-> 0]
EmptyDb ==
    [schema |-> NoSchema, customers |-> {}, merchants |-> {},
     transactions |-> {}, seq |-> EmptySeq]

VARIABLES
    fileExists,     \* os.path.exists('fintech_data.db')
    db,             \* the committed content of the file
    now,            \* the wall clock, in minutes
    pc,             \* where generate_data.main is
    conn,           \* the generator connection's view of the database
    i,              \* the loop counter of the generate_* step under way
    customer_ids,   \* the list generate_customers returns
    merchant_ids,   \* the list generate_merchants returns
    start_date,     \* generate_transactions' start_date
    runs,           \* invocations of main since the file was last provisioned
    prior,          \* the ids committed when the last run or provisioning began
    outcome,        \* how the last run of main ended, and where it failed
    view            \* the answer to the last query-layer call or render

vars == <<fileExists, db, now, pc, conn, i, customer_ids, merchant_ids,
          start_date, runs, prior, outcome, view>>

genLocals == <<i, customer_ids, merchant_ids, start_date>>

Ids(rows) == {r.id : r \in rows}
IdsOf(d) ==
    [customers |-> Ids(d.customers), merchants |-> Ids(d.merchants),
     transactions |-> Ids(d.transactions)]

NoView == [op |-> "none"]
NoOutcome == [status |-> "none", at |-> "idle"]

Init ==
    /\ fileExists = FALSE
    /\ db = EmptyDb
    /\ now \in NowChoices
    /\ pc = "idle"
    /\ conn = EmptyDb
    /\ i = 0
    /\ customer_ids = <<>>
    /\ merchant_ids = <<>>
    /\ start_date = 0
    /\ runs = 0
    /\ prior = IdsOf(EmptyDb)
    /\ outcome = NoOutcome
    /\ view = NoView

(***************************************************************************)
(* setup_database.create_database: remove the file, create it anew with    *)
(* the three tables, five indexes and two views, commit.                   *)
(***************************************************************************)
\* (variant) create_database without os.remove: the tables that exist stay
create_database_NoRemove == [db EXCEPT !.schema = FullSchema]

create_database_result == [EmptyDb EXCEPT !.schema = FullSchema]

CreateDatabase ==
    /\ pc = "idle"
    /\ view = NoView
    /\ fileExists' = TRUE
    /\ db' = create_database_result
    /\ conn' = create_database_result
    /\ runs' = 0
    /\ prior' = IdsOf(db)
    /\ outcome' = NoOutcome
    /\ UNCHANGED <<now, pc, genLocals, view>>

(***************************************************************************)
(* generate_data.py                                                        *)
(***************************************************************************)
\* conn.commit(): what the connection sees becomes the file's content
Commit(c) == c

\* main returns: its locals are gone
ResetLocals ==
    /\ i' = 0
    /\ customer_ids' = <<>>
    /\ merchant_ids' = <<>>
    /\ start_date' = 0

\* (variant) a handler that keeps what was inserted: commit in place of rollback
Raise_Commits(at) ==
    /\ db' = conn
    /\ conn' = conn
    /\ pc' = "idle"
    /\ outcome' = [status |-> "failed", at |-> at]
    /\ ResetLocals
    /\ UNCHANGED <<fileExists, now, runs, prior, view>>

\* the handler of main: print the error, conn.rollback(), then conn.close()
Raise(at) ==
    /\ conn' = db
    /\ pc' = "idle"
    /\ outcome' = [status |-> "failed", at |-> at]
    /\ ResetLocals
    /\ UNCHANGED <<fileExists, db, now, runs, prior, view>>

\* the rows of transactions one complete run inserts
RowsPerRun == NumTransactions + 1 + BurstSize

\* main: sqlite3.connect creates the file when it is missing
Main_Connect ==
    /\ pc = "idle"
    /\ view = NoView
    /\ runs < MaxRuns
    /\ runs' = runs + 1
    /\ fileExists' = TRUE
    /\ conn' = db
    /\ prior' = IdsOf(db)
    /\ outcome' = [status |-> "running", at |-> "clear"]
    /\ pc' = "clear"
    /\ ResetLocals
    /\ UNCHANGED <<db, now, view>>

\* (variant) main without DELETE FROM transactions
DeleteAll_KeepTransactions(c) ==
    [c EXCEPT !.merchants = {}, !.customers = {}]

\* the three DELETE statements
DeleteAll(c) ==
    [c EXCEPT !.transactions = {}, !.merchants = {}, !.customers = {}]

\* main: "Limpa dados antigos": the DELETEs and the first conn.commit();
\* a missing table raises sqlite3.OperationalError
Main_ClearOldData ==
    /\ pc = "clear"
    /\ IF TableNames \subseteq conn.schema.tables
       THEN /\ conn' = DeleteAll(conn)
            /\ db' = Commit(DeleteAll(conn))
            /\ pc' = "customers"
            /\ outcome' = [outcome EXCEPT !.at = "customers"]
            /\ UNCHANGED <<fileExists, now, genLocals, runs, prior, view>>
       ELSE Raise("clear")

\* the UNIQUE constraints of customers: email, document
\* (variant) customers without UNIQUE columns: no insert is refused
CustomerConflict_Never(rows, d) == FALSE

CustomerConflict(rows, d) ==
    \E r \in rows : r.email = d.email \/ r.document = d.document

InsertCustomer(c, d) ==
    [c EXCEPT !.customers = @ \cup {[id |-> c.seq.customers + 1,
                                     email |-> d.email,
                                     document |-> d.document]},
              !.seq.customers = @ + 1]

\* one iteration of generate_customers' loop
GenerateCustomer ==
    /\ pc = "customers"
    /\ \E d \in CustomerDraws :
          IF CustomerConflict(conn.customers, d)
          THEN UNCHANGED <<conn, customer_ids>>
          ELSE /\ conn' = InsertCustomer(conn, d)
               /\ customer_ids' = Append(customer_ids, conn.seq.customers + 1)
    /\ IF i + 1 < NumCustomers
       THEN i' = i + 1 /\ UNCHANGED <<pc, outcome>>
       ELSE /\ i' = 0
            /\ pc' = "merchants"
            /\ outcome' = [outcome EXCEPT !.at = "merchants"]
    /\ UNCHANGED <<fileExists, db, now, merchant_ids, start_date, runs, prior, view>>

\* the UNIQUE constraint of merchants: document
MerchantConflict(rows, d) == \E r \in rows : r.document = d.document

InsertMerchant(c, d) ==
    [c EXCEPT !.merchants = @ \cup {[id |-> c.seq.merchants + 1,
                                     category |-> d.category,
                                     document |-> d.document]},
              !.seq.merchants = @ + 1]

\* one iteration of generate_merchants' loop; after the last one
\* generate_transactions starts and computes start_date
GenerateMerchant ==
    /\ pc = "merchants"
    /\ \E d \in MerchantDraws :
          IF MerchantConflict(conn.merchants, d)
          THEN UNCHANGED <<conn, merchant_ids>>
          ELSE /\ conn' = InsertMerchant(conn, d)
               /\ merchant_ids' = Append(merchant_ids, conn.seq.merchants + 1)
    /\ IF i + 1 < NumMerchants
       THEN i' = i + 1 /\ UNCHANGED <<pc, outcome, start_date>>
       ELSE /\ i' = 0
            /\ pc' = "transactions"
            /\ outcome' = [outcome EXCEPT !.at = "transactions"]
            /\ start_date' = now - WindowDays * MinutesPerDay
    /\ UNCHANGED <<fileExists, db, now, customer_ids, runs, prior, view>>

\* the row as stored: INSERT INTO transactions gives it the next id
Stored(id, row) ==
    [id |-> id,
     customer_id |-> row.customer_id,
     merchant_id |-> row.merchant_id,
     amount |-> row.amount,
     payment_method |-> row.payment_method,
     status |-> row.status,
     transaction_date |-> row.transaction_date]

InsertTransaction(c, row) ==
    [c EXCEPT !.transactions = @ \cup {Stored(c.seq.transactions + 1, row)},
              !.seq.transactions = @ + 1]

\* the row one iteration of generate_transactions' loop inserts
RegularRow(cids, mids, start, d) ==
    [customer_id |-> Choice(cids, d.c),
     merchant_id |-> Choice(mids, d.m),
     amount |-> d.amount,
     payment_method |-> d.payment_method,
     status |-> d.status,
     transaction_date |-> start + d.days_ago * MinutesPerDay
                                + d.hours * MinutesPerHour + d.minutes]

\* one iteration of generate_transactions' loop; random.choice of an empty
\* list raises IndexError
GenerateTransaction ==
    /\ pc = "transactions"
    /\ IF Len(customer_ids) = 0 \/ Len(merchant_ids) = 0
       THEN Raise("transactions")
       ELSE /\ \E d \in TxDraws :
                  conn' = InsertTransaction(
                              conn, RegularRow(customer_ids, merchant_ids, start_date, d))
            /\ IF i + 1 < NumTransactions
               THEN i' = i + 1 /\ UNCHANGED <<pc, outcome>>
               ELSE /\ i' = 0
                    /\ pc' = "anomalies"
                    /\ outcome' = [outcome EXCEPT !.at = "anomalies"]
            /\ UNCHANGED <<fileExists, db, now, customer_ids, merchant_ids,
                           start_date, runs, prior, view>>

\* (variant) ids drawn as positions 1..n instead of from the lists returned
HighValueRow_ByPosition(cids, mids, t, d) ==
    [customer_id |-> 1 + (d.hc % Len(cids)),
     merchant_id |-> 1 + (d.hm % Len(mids)),
     amount |-> HighValueAmount,
     payment_method |-> "credit_card",
     status |-> "approved",
     transaction_date |-> t - HighValueAge]

\* generate_anomalies: the high-value row
HighValueRow(cids, mids, t, d) ==
    [customer_id |-> Choice(cids, d.hc),
     merchant_id |-> Choice(mids, d.hm),
     amount |-> HighValueAmount,
     payment_method |-> "credit_card",
     status |-> "approved",
     transaction_date |-> t - HighValueAge]

\* (variant) burst rows written with a status of their own
BurstRow_Flagged(cids, mids, t, d, k) ==
    [customer_id |-> Choice(cids, d.c),
     merchant_id |-> Choice(mids, d.m[k]),
     amount |-> d.amount[k],
     payment_method |-> Choice(PAYMENT_METHODS, d.method[k]),
     status |-> "suspicious",
     transaction_date |-> (t - BurstAge) + k * BurstSpacing]

\* generate_anomalies: row k of the burst
BurstRow(cids, mids, t, d, k) ==
    [customer_id |-> Choice(cids, d.c),
     merchant_id |-> Choice(mids, d.m[k]),
     amount |-> d.amount[k],
     payment_method |-> Choice(PAYMENT_METHODS, d.method[k]),
     status |-> "approved",
     transaction_date |-> (t - BurstAge) + k * BurstSpacing]

RECURSIVE InsertBurst(_, _, _, _, _, _)
InsertBurst(c, cids, mids, t, d, k) ==
    IF k >= BurstSize
    THEN c
    ELSE InsertBurst(InsertTransaction(c, BurstRow(cids, mids, t, d, k)),
                     cids, mids, t, d, k + 1)

\* generate_anomalies, whole: the high-value insert, then the ten burst inserts
GenerateAnomalies ==
    /\ pc = "anomalies"
    /\ IF Len(customer_ids) = 0 \/ Len(merchant_ids) = 0
       THEN Raise("anomalies")
       ELSE /\ \E d \in AnomalyDraws :
                  conn' = InsertBurst(
                              InsertTransaction(
                                  conn, HighValueRow(customer_ids, merchant_ids, now, d)),
                              customer_ids, merchant_ids, now, d, 0)
            /\ pc' = "commit"
            /\ outcome' = [outcome EXCEPT !.at = "commit"]
            /\ UNCHANGED <<fileExists, db, now, genLocals, runs, prior, view>>

\* main: "Commit final"
Main_Commit ==
    /\ pc = "commit"
    /\ db' = Commit(conn)
    /\ pc' = "stats"
    /\ outcome' = [outcome EXCEPT !.at = "stats"]
    /\ UNCHANGED <<fileExists, now, conn, genLocals, runs, prior, view>>

\* SUM(amount) ... WHERE status = 'approved' of print_statistics: NULL (None)
\* when no row is approved, and f"{None:,.2f}" raises TypeError
StatsVolumeIsNull(c) == ~ \E t \in c.transactions : t.status = "approved"

\* main: print_statistics, the closing prints, conn.close()
Main_PrintStatistics ==
    /\ pc = "stats"
    /\ IF StatsVolumeIsNull(conn)
       THEN Raise("stats")
       ELSE /\ pc' = "idle"
            /\ outcome' = [status |-> "ok", at |-> "idle"]
            /\ ResetLocals
            /\ UNCHANGED <<fileExists, db, now, conn, runs, prior, view>>

\* an exception the code does not expect (sqlite3.OperationalError: disk I/O
\* error, database is locked, ...) raised by the statement main is at, up to
\* and including the final commit; print_statistics only reads and prints
UnexpectedError ==
    /\ pc \in {"clear", "customers", "merchants", "transactions", "anomalies", "commit"}
    /\ Raise(pc)

(***************************************************************************)
(* database.py: the query layer.  Every function opens a connection of its *)
(* own and reads the committed content d of the file.  SQL NULL (Python    *)
(* None) is Null; a number n is Val(n).                                    *)
(***************************************************************************)
Null == [isNull |-> TRUE, v |-> 0]
Val(n) == [isNull |-> FALSE, v |-> n]

RECURSIVE SumAmount(_)
\* SUM(amount) over the rows given (0 for none); rows have distinct ids, and
\* the sum is taken by halving the range of ids
SumAmount(rows) ==
    IF rows = {}
    THEN 0
    ELSE LET ids == {r.id : r \in rows}
             lo == CHOOSE x \in ids : \A y \in ids : x <= y
             hi == CHOOSE x \in ids : \A y \in ids : x >= y
             mid == (lo + hi) \div 2
         IN  IF lo = hi
             THEN (CHOOSE r \in rows : TRUE).amount
             ELSE SumAmount({r \in rows : r.id <= mid})
                  + SumAmount({r \in rows : r.id > mid})

\* ROUND(a / b, 2) on numbers kept in hundredths: half away from zero, a >= 0
RoundDiv(a, b) == (2 * a + b) \div (2 * b)

WithStatus(rows, st) == {r \in rows : r.status = st}

\* ROUND(100.0 * SUM(CASE WHEN status = 'approved' THEN 1 ELSE 0 END) / COUNT(*), 2)
ApprovalRate(rows) ==
    RoundDiv(100 * 100 * Cardinality(WithStatus(rows, "approved")), Cardinality(rows))

\* ROUND(AVG(amount), 2)
AvgAmount(rows) == RoundDiv(SumAmount(rows), Cardinality(rows))

\* ORDER BY key DESC over the set S; rows of equal key, whose order SQL
\* leaves open, come out by ascending tie (no two rows share key and tie)
OrderDesc(S, key, tie) ==
    LET before(y, x) == \/ key[y] > key[x]
                        \/ key[y] = key[x] /\ tie[y] < tie[x]
        rank(x) == 1 + Cardinality({y \in S : before(y, x)})
    IN  [k \in 1..Cardinality(S) |-> CHOOSE x \in S : rank(x) = k]

\* LIMIT n: SQLite reads a negative n as no limit
Limit(rows, n) ==
    IF n < 0 \/ n >= Len(rows) THEN rows ELSE SubSeq(rows, 1, n)

\* the tables a query reads must exist, or sqlite3.OperationalError is raised
Readable(d) == TableNames \subseteq d.schema.tables

\* get_kpis: one aggregate row over the whole table; over no rows COUNT is 0
\* and SUM, AVG and every expression over them are NULL
get_kpis(d) ==
    LET rows == d.transactions IN
    [total_transactions |-> Cardinality(rows),
     total_volume |-> IF rows = {} THEN Null
                      ELSE Val(SumAmount(WithStatus(rows, "approved"))),
     avg_ticket |-> IF rows = {} THEN Null ELSE Val(AvgAmount(rows)),
     approval_rate |-> IF rows = {} THEN Null ELSE Val(ApprovalRate(rows)),
     total_customers |-> Cardinality(d.customers),
     total_merchants |-> Cardinality(d.merchants)]

\* (variant) a window that leaves out its first day
InLookback_Exclusive(ts, t, days) == ts >= (DateOf(t) - days + 1) * MinutesPerDay

\* WHERE transaction_date >= date('now', '-' || days || ' days'): the text
\* 'YYYY-MM-DD hh:mm:ss' against the text 'YYYY-MM-DD'
InLookback(ts, t, days) == ts >= (DateOf(t) - days) * MinutesPerDay

\* (variant) total_volume over every status, as the daily_summary view sums it
DailyRow_AllStatuses(rows, date) ==
    LET g == {r \in rows : DateOf(r.transaction_date) = date} IN
    [date |-> date,
     total_transactions |-> Cardinality(g),
     approved |-> Cardinality(WithStatus(g, "approved")),
     declined |-> Cardinality(WithStatus(g, "declined")),
     pending |-> Cardinality(WithStatus(g, "pending")),
     refunded |-> Cardinality(WithStatus(g, "refunded")),
     total_volume |-> SumAmount(g),
     avg_amount |-> AvgAmount(g),
     approval_rate |-> ApprovalRate(g)]

DailyRow(rows, date) ==
    LET g == {r \in rows : DateOf(r.transaction_date) = date} IN
    [date |-> date,
     total_transactions |-> Cardinality(g),
     approved |-> Cardinality(WithStatus(g, "approved")),
     declined |-> Cardinality(WithStatus(g, "declined")),
     pending |-> Cardinality(WithStatus(g, "pending")),
     refunded |-> Cardinality(WithStatus(g, "refunded")),
     total_volume |-> SumAmount(WithStatus(g, "approved")),
     avg_amount |-> AvgAmount(g),
     approval_rate |-> ApprovalRate(g)]

\* get_daily_summary(days) called at time t
get_daily_summary(d, t, days) ==
    LET rows == {r \in d.transactions : InLookback(r.transaction_date, t, days)}
        dates == {DateOf(r.transaction_date) : r \in rows}
        out == {DailyRow(rows, date) : date \in dates}
    IN  OrderDesc(out, [x \in out |-> x.date], [x \in out |-> 0])

\* one row of get_top_merchants: the group of merchant m (its name column
\* is stood for by its id) over the joined rows g
MerchantRow(m, g) ==
    [merchant |-> m.id,
     category |-> m.category,
     total_transactions |-> Cardinality(g),
     total_volume |-> SumAmount(g),
     avg_ticket |-> AvgAmount(g),
     approval_rate |-> ApprovalRate(g)]

\* (variant) the ranking without WHERE t.status = 'approved'
get_top_merchants_AnyStatus(d, limit) ==
    LET joined(m) == {r \in d.transactions : r.merchant_id = m.id}
        out == {MerchantRow(m, joined(m)) : m \in {x \in d.merchants : joined(x) # {}}}
    IN  Limit(OrderDesc(out, [x \in out |-> x.total_volume],
                        [x \in out |-> x.merchant]), limit)

\* get_top_merchants(limit)
get_top_merchants(d, limit) ==
    LET joined(m) == {r \in d.transactions :
                         r.merchant_id = m.id /\ r.status = "approved"}
        out == {MerchantRow(m, joined(m)) : m \in {x \in d.merchants : joined(x) # {}}}
    IN  Limit(OrderDesc(out, [x \in out |-> x.total_volume],
                        [x \in out |-> x.merchant]), limit)

\* the order of the category names as texts
CategoryRank == [c \in CATEGORIES |-> IF c = "Restaurante" THEN 1 ELSE 2]

\* the rows of merchants JOIN transactions of one category
OfCategory(d, cat) ==
    {r \in d.transactions :
        \E m \in d.merchants : m.id = r.merchant_id /\ m.category = cat}

\* (variant) total_volume as SUM(t.amount), over every status
get_category_performance_AllStatuses(d) ==
    LET out == {[category |-> cat,
                 total_transactions |-> Cardinality(OfCategory(d, cat)),
                 total_volume |-> SumAmount(OfCategory(d, cat)),
                 avg_ticket |-> AvgAmount(OfCategory(d, cat))] :
                    cat \in {x \in CATEGORIES : OfCategory(d, x) # {}}}
    IN  OrderDesc(out, [x \in out |-> x.total_volume],
                  [x \in out |-> CategoryRank[x.category]])

\* get_category_performance(): per category of merchants JOIN transactions,
\* by total_volume descending
get_category_performance(d) ==
    LET out == {[category |-> cat,
                 total_transactions |-> Cardinality(OfCategory(d, cat)),
                 total_volume |-> SumAmount(WithStatus(OfCategory(d, cat), "approved")),
                 avg_ticket |-> AvgAmount(OfCategory(d, cat))] :
                    cat \in {x \in CATEGORIES : OfCategory(d, x) # {}}}
    IN  OrderDesc(out, [x \in out |-> x.total_volume],
                  [x \in out |-> CategoryRank[x.category]])

\* (variant) the high-value query without its LIMIT
high_value_NoLimit(d, threshold_amount) ==
    LET out == {r \in d.transactions :
                   /\ \E c \in d.customers : c.id = r.customer_id
                   /\ \E m \in d.merchants : m.id = r.merchant_id
                   /\ r.amount > threshold_amount}
    IN  OrderDesc(out, [x \in out |-> x.amount], [x \in out |-> x.id])

\* query_high_value of get_anomalies
high_value(d, threshold_amount) ==
    LET out == {r \in d.transactions :
                   /\ \E c \in d.customers : c.id = r.customer_id
                   /\ \E m \in d.merchants : m.id = r.merchant_id
                   /\ r.amount > threshold_amount}
    IN  Limit(OrderDesc(out, [x \in out |-> x.amount], [x \in out |-> x.id]),
              AnomalyLimit)

\* query_frequency of get_anomalies: the (customer, hour window) groups of
\* at least threshold_frequency rows, for customers that exist
high_frequency(d, threshold_frequency) ==
    LET keys == {<<r.customer_id, HourWindow(r.transaction_date)>> :
                    r \in d.transactions}
        count(k) == Cardinality({r \in d.transactions :
                        r.customer_id = k[1] /\ HourWindow(r.transaction_date) = k[2]})
        out == {[customer_id |-> k[1], hour_window |-> k[2],
                 transactions_count |-> count(k)] :
                    k \in {x \in keys : /\ count(x) >= threshold_frequency
                                        /\ \E c \in d.customers : c.id = x[1]}}
    IN  Limit(OrderDesc(out, [x \in out |-> x.transactions_count],
                        [x \in out |-> x.customer_id * (2 * At(200, 0, 0)) + x.hour_window]),
              AnomalyLimit)

\* get_anomalies(threshold_amount, threshold_frequency): (df_high, df_freq)
get_anomalies(d, threshold_amount, threshold_frequency) ==
    [high |-> high_value(d, threshold_amount),
     freq |-> high_frequency(d, threshold_frequency)]

\* get_transactions_filtered: dates are day numbers, NoDate stands for None;
\* NoText stands for a payment_method or status of None or '' (both falsy)
NoDate == 0 - 1
NoText == ""
DefaultFilterLimit == 100

\* the WHERE clause built from the arguments: a falsy argument, or 'Todos'
\* for payment_method and status, adds no condition
FilterMatches(r, start, end, payment_method, status) ==
    /\ start # NoDate => DateOf(r.transaction_date) >= start
    /\ end # NoDate => DateOf(r.transaction_date) <= end
    /\ (payment_method # NoText /\ payment_method # "Todos")
           => r.payment_method = payment_method
    /\ (status # NoText /\ status # "Todos") => r.status = status

\* (variant) the end date compared with the timestamp instead of its DATE()
get_transactions_filtered_RawEnd(d, start, end, payment_method, status, limit) ==
    LET out == {r \in d.transactions :
                   /\ \E c \in d.customers : c.id = r.customer_id
                   /\ \E m \in d.merchants : m.id = r.merchant_id
                   /\ FilterMatches(r, start, NoDate, payment_method, status)
                   /\ end # NoDate => r.transaction_date <= end * MinutesPerDay}
    IN  Limit(OrderDesc(out, [x \in out |-> x.transaction_date], [x \in out |-> x.id]),
              limit)

\* get_transactions_filtered(start_date, end_date, payment_method, status, limit)
get_transactions_filtered(d, start, end, payment_method, status, limit) ==
    LET out == {r \in d.transactions :
                   /\ \E c \in d.customers : c.id = r.customer_id
                   /\ \E m \in d.merchants : m.id = r.merchant_id
                   /\ FilterMatches(r, start, end, payment_method, status)}
    IN  Limit(OrderDesc(out, [x \in out |-> x.transaction_date], [x \in out |-> x.id]),
              limit)

\* the position of x in the list seq
IndexIn(seq, x) == CHOOSE k \in 1..Len(seq) : seq[k] = x

\* get_payment_method_stats(): per payment method, by descending count
get_payment_method_stats(d) ==
    LET of(pm) == {r \in d.transactions : r.payment_method = pm}
        methods == {r.payment_method : r \in d.transactions}
        out == {[payment_method |-> pm,
                 total_transactions |-> Cardinality(of(pm)),
                 approved |-> Cardinality(WithStatus(of(pm), "approved")),
                 total_volume |-> SumAmount(WithStatus(of(pm), "approved")),
                 avg_amount |-> AvgAmount(of(pm)),
                 approval_rate |-> ApprovalRate(of(pm))] : pm \in methods}
    IN  OrderDesc(out, [x \in out |-> x.total_transactions],
                  [x \in out |-> IndexIn(PAYMENT_METHODS, x.payment_method)])

\* get_hourly_distribution(): per hour of the day, by ascending hour
get_hourly_distribution(d) ==
    LET of(h) == {r \in d.transactions : HourOf(r.transaction_date) = h}
        hours == {HourOf(r.transaction_date) : r \in d.transactions}
        out == {[hour |-> h,
                 total_transactions |-> Cardinality(of(h)),
                 avg_amount |-> AvgAmount(of(h))] : h \in hours}
    IN  OrderDesc(out, [x \in out |-> 0 - x.hour], [x \in out |-> x.hour])

\* get_status_distribution(): per status, by descending count
get_status_distribution(d) ==
    LET of(st) == WithStatus(d.transactions, st)
        statuses == {r.status : r \in d.transactions}
        out == {[status |-> st,
                 count |-> Cardinality(of(st)),
                 percentage |-> RoundDiv(100 * 100 * Cardinality(of(st)),
                                         Cardinality(d.transactions))] :
                    st \in statuses}
    IN  OrderDesc(out, [x \in out |-> x.count],
                  [x \in out |-> IndexIn(STATUSES, x.status)])

(***************************************************************************)
(* Calls of the query layer.  view is what the call returned: raised when  *)
(* it ended in an exception, else out.  The tool has one operator and one  *)
(* synchronous request at a time: a call is made between runs of the       *)
(* generator and its answer is dropped (Discard) before the next command.  *)
(* What a reader would see during a run is a committed content that is     *)
(* also seen between runs.                                                 *)
(***************************************************************************)
\* the arguments tried
Lookbacks == {7, 30, 90}
TopLimits == {0, 1, 2}
AmountThresholds == {100000, DefaultThresholdAmount}
FrequencyThresholds == {DefaultThresholdFrequency, BurstSize}

Returned(op, args, out) == [op |-> op, args |-> args, raised |-> FALSE, out |-> out]
Raised(op, args) == [op |-> op, args |-> args, raised |-> TRUE, out |-> <<>>]

\* (variant) a connection that provisions the schema when it is opened
Query_Provisions(op, args, out) ==
    /\ pc = "idle"
    /\ view = NoView
    /\ fileExists
    /\ view' = IF Readable(db) THEN Returned(op, args, out) ELSE Raised(op, args)
    /\ db' = create_database_result
    /\ conn' = create_database_result
    /\ UNCHANGED <<fileExists, now, pc, genLocals, runs, prior, outcome>>

Query(op, args, out) ==
    /\ pc = "idle"
    /\ view = NoView
    /\ fileExists
    /\ view' = IF Readable(db) THEN Returned(op, args, out) ELSE Raised(op, args)
    /\ UNCHANGED <<fileExists, db, now, pc, conn, genLocals, runs, prior, outcome>>

Call_get_kpis == Query("get_kpis", <<>>, get_kpis(db))

Call_get_daily_summary ==
    \E days \in Lookbacks :
        Query("get_daily_summary", <<days>>, get_daily_summary(db, now, days))

Call_get_top_merchants ==
    \E limit \in TopLimits :
        Query("get_top_merchants", <<limit>>, get_top_merchants(db, limit))

Call_get_category_performance ==
    Query("get_category_performance", <<>>, get_category_performance(db))

\* the argument tuples tried: none given, 'Todos' with a limit that cuts,
\* and dates, a payment method and a status in several combinations
FilterCalls(t) ==
    { <<NoDate, NoDate, NoText, NoText, DefaultFilterLimit>>,
      <<NoDate, NoDate, "Todos", "Todos", 1>>,
      <<DateOf(t) - 30, NoDate, NoText, "approved", DefaultFilterLimit>>,
      <<NoDate, DateOf(t) - 1, "credit_card", NoText, DefaultFilterLimit>>,
      <<DateOf(t) - 89, DateOf(t) - 1, NoText, NoText, 2>>,
      <<DateOf(t) - 1, DateOf(t), "pix", "approved", 0>> }

Call_get_transactions_filtered ==
    \E a \in FilterCalls(now) :
        Query("get_transactions_filtered", a,
              get_transactions_filtered(db, a[1], a[2], a[3], a[4], a[5]))

Call_get_payment_method_stats ==
    Query("get_payment_method_stats", <<>>, get_payment_method_stats(db))

Call_get_hourly_distribution ==
    Query("get_hourly_distribution", <<>>, get_hourly_distribution(db))

Call_get_status_distribution ==
    Query("get_status_distribution", <<>>, get_status_distribution(db))

Call_get_anomalies ==
    \E ta \in AmountThresholds, tf \in FrequencyThresholds :
        Query("get_anomalies", <<ta, tf>>, get_anomalies(db, ta, tf))

(***************************************************************************)
(* dashboard.py: one run of the Streamlit script, top to bottom, with the  *)
(* widgets at their defaults.  An exception ends the run where it is       *)
(* raised.                                                                 *)
(***************************************************************************)
\* f"{x:,.2f}": None has no such format (TypeError)
FormatsAsMoney(x) == ~x.isNull

\* the sections the script gets through, in order, and whether it raised
dashboard(d, t) ==
    IF ~Readable(d)
    THEN [raised |-> TRUE, sections |-> <<>>]
    ELSE LET kpis == get_kpis(d) IN
         IF ~(FormatsAsMoney(kpis.total_volume) /\ FormatsAsMoney(kpis.avg_ticket))
         THEN [raised |-> TRUE, sections |-> <<>>]
         ELSE [raised |-> FALSE,
               sections |-> <<"kpis", "tendencias", "metodos", "merchants",
                              "padroes", "anomalias">>]

Run_dashboard ==
    /\ pc = "idle"
    /\ view = NoView
    /\ fileExists
    /\ view' = [op |-> "dashboard", args |-> <<>>,
                raised |-> dashboard(db, now).raised,
                out |-> dashboard(db, now).sections]
    /\ UNCHANGED <<fileExists, db, now, pc, conn, genLocals, runs, prior, outcome>>

(***************************************************************************)
(* A run of main that nothing interrupts, with NUM_TRANSACTIONS = n and    *)
(* one customer and one merchant accepted: the stores on which the LIMIT   *)
(* of a query cuts rows off.  Row j of the loop draws 5000.00, approved,   *)
(* by credit card, j days after start_date at 06:00 past its time of day.  *)
(***************************************************************************)
LargeCounts == {AnomalyLimit - 2, AnomalyLimit - 1, AnomalyLimit, AnomalyLimit + 1}

LargeDraw(j) ==
    [c |-> 0, m |-> 0, amount |-> 500000, payment_method |-> "credit_card",
     status |-> "approved", days_ago |-> j % WindowDays, hours |-> 6, minutes |-> 0]

\* the n iterations of generate_transactions' loop, taken together
LargeLoop(c, cids, mids, start, n) ==
    [c EXCEPT !.transactions =
                  @ \cup {Stored(c.seq.transactions + j + 1,
                                 RegularRow(cids, mids, start, LargeDraw(j))) :
                             j \in 0..(n - 1)},
              !.seq.transactions = @ + n]

LargeRun(d, t, n) ==
    LET c1 == InsertCustomer(DeleteAll(d), CHOOSE x \in CustomerDraws : TRUE)
        c2 == InsertMerchant(c1, CHOOSE x \in MerchantDraws : TRUE)
        cids == <<d.seq.customers + 1>>
        mids == <<d.seq.merchants + 1>>
        c3 == LargeLoop(c2, cids, mids, t - WindowDays * MinutesPerDay, n)
        a == CHOOSE x \in AnomalyDraws : TRUE
    IN  InsertBurst(InsertTransaction(c3, HighValueRow(cids, mids, t, a)),
                    cids, mids, t, a, 0)

Main_Large ==
    /\ pc = "idle"
    /\ view = NoView
    /\ Readable(db)
    /\ runs = MaxRuns - 1
    /\ runs' = runs + 1
    /\ prior' = IdsOf(db)
    /\ \E n \in LargeCounts :
          /\ db' = Commit(LargeRun(db, now, n))
          /\ conn' = LargeRun(db, now, n)
    /\ outcome' = [status |-> "ok", at |-> "idle"]
    /\ UNCHANGED <<fileExists, now, pc, genLocals, view>>

\* the caller is done with the answer
Discard ==
    /\ view # NoView
    /\ view' = NoView
    /\ UNCHANGED <<fileExists, db, now, pc, conn, genLocals, runs, prior, outcome>>

Next ==
    \/ CreateDatabase
    \/ Main_Connect
    \/ Main_ClearOldData
    \/ GenerateCustomer
    \/ GenerateMerchant
    \/ GenerateTransaction
    \/ GenerateAnomalies
    \/ Main_Commit
    \/ Main_PrintStatistics
    \/ UnexpectedError
    \/ Call_get_kpis
    \/ Call_get_daily_summary
    \/ Call_get_top_merchants
    \/ Call_get_anomalies
    \/ Call_get_category_performance
    \/ Call_get_transactions_filtered
    \/ Call_get_payment_method_stats
    \/ Call_get_hourly_distribution
    \/ Call_get_status_distribution
    \/ Run_dashboard
    \/ Discard

Spec == Init /\ [][Next]_vars

\* the same program, with runs of main at a NUM_TRANSACTIONS above LIMIT 50
NextLarge ==
    \/ Next
    \/ Main_Large

SpecLarge == Init /\ [][NextLarge]_vars

(***************************************************************************)
(* A run of main that nothing interrupts, with two customers and one       *)
(* merchant accepted, whose transaction loop draws the first customer      *)
(* CrowdSize times in each of g hour windows (one window a day, at 06:00   *)
(* to 06:05 past start_date's time of day, 10.00 by pix, approved): the    *)
(* stores on which LIMIT 50 of query_frequency cuts groups off.            *)
(***************************************************************************)
CrowdSize == DefaultThresholdFrequency + 1
CrowdGroups == {AnomalyLimit - 1, AnomalyLimit}

CrowdedDraw(j) ==
    [c |-> 0, m |-> 0, amount |-> 1000, payment_method |-> "pix",
     status |-> "approved", days_ago |-> j \div CrowdSize, hours |-> 6,
     minutes |-> j % CrowdSize]

\* the n iterations of generate_transactions' loop, taken together
CrowdedLoop(c, cids, mids, start, n) ==
    [c EXCEPT !.transactions =
                  @ \cup {Stored(c.seq.transactions + j + 1,
                                 RegularRow(cids, mids, start, CrowdedDraw(j))) :
                             j \in 0..(n - 1)},
              !.seq.transactions = @ + n]

CrowdedRun(d, t, g, a) ==
    LET c1 == InsertCustomer(InsertCustomer(DeleteAll(d),
                                 [email |-> "e1", document |-> "cpf1"]),
                             [email |-> "e2", document |-> "cpf2"])
        c2 == InsertMerchant(c1, CHOOSE x \in MerchantDraws : TRUE)
        cids == <<d.seq.customers + 1, d.seq.customers + 2>>
        mids == <<d.seq.merchants + 1>>
        c3 == CrowdedLoop(c2, cids, mids, t - WindowDays * MinutesPerDay, g * CrowdSize)
    IN  InsertBurst(InsertTransaction(c3, HighValueRow(cids, mids, t, a)),
                    cids, mids, t, a, 0)

Main_Crowded ==
    /\ pc = "idle"
    /\ view = NoView
    /\ Readable(db)
    /\ runs < MaxRuns
    /\ runs' = runs + 1
    /\ prior' = IdsOf(db)
    /\ \E g \in CrowdGroups, a \in AnomalyDraws :
          /\ db' = Commit(CrowdedRun(db, now, g, a))
          /\ conn' = CrowdedRun(db, now, g, a)
    /\ outcome' = [status |-> "ok", at |-> "idle"]
    /\ UNCHANGED <<fileExists, now, pc, genLocals, view>>

\* provisioning, such runs of main, and get_anomalies
NextCrowded ==
    \/ CreateDatabase
    \/ Main_Crowded
    \/ Call_get_anomalies
    \/ Discard

SpecCrowded == Init /\ [][NextCrowded]_vars

(***************************************************************************)
(* Properties.                                                             *)
(***************************************************************************)
IsAnswer(op) == view.op = op /\ ~view.raised
Abs(x) == IF x < 0 THEN -x ELSE x
GenerateSteps == {"customers", "merchants", "transactions", "anomalies"}

\* the committed rows that the current or last run of main inserted
NewIds(d) ==
    (Ids(d.customers) \ prior.customers)
        \cup (Ids(d.merchants) \ prior.merchants)
        \cup (Ids(d.transactions) \ prior.transactions)

\* C1: after a run of main that ended in its exception handler, every row of
\* customers, merchants and transactions that was there when the run began
\* is still there.
C1_PriorStateKept ==
    (pc = "idle" /\ outcome.status = "failed") =>
        /\ prior.customers \subseteq Ids(db.customers)
        /\ prior.merchants \subseteq Ids(db.merchants)
        /\ prior.transactions \subseteq Ids(db.transactions)

\* C2: generation is all-or-nothing: while main is in one of the four
\* generate steps or before its final commit, and after a run that failed in
\* one of the four steps, the file holds no row that run inserted.
C2_AllOrNothing ==
    /\ pc \in GenerateSteps \cup {"commit"} => NewIds(db) = {}
    /\ (pc = "idle" /\ outcome.status = "failed" /\ outcome.at \in GenerateSteps)
           => NewIds(db) = {}

\* a run failed in generate_anomalies, after the customer, merchant and
\* transaction loops had inserted their rows
C2_Witness ==
    /\ pc = "idle"
    /\ Readable(db)
    /\ outcome = [status |-> "failed", at |-> "anomalies"]

\* C3: every committed transaction refers to a committed customer and a
\* committed merchant.
C3_ReferentialIntegrity ==
    \A t \in db.transactions :
        /\ \E c \in db.customers : c.id = t.customer_id
        /\ \E m \in db.merchants : m.id = t.merchant_id

\* a second run committed its rows over those of a first
C3_Witness ==
    /\ pc = "idle"
    /\ outcome.status = "ok"
    /\ runs = 2
    /\ prior.transactions # {}
    /\ db.transactions # {}

\* C4: every committed transaction has amount > 0, one of the four statuses
\* and one of the four payment methods.
C4_Domains ==
    \A t \in db.transactions :
        /\ t.amount > 0
        /\ t.status \in {"approved", "declined", "pending", "refunded"}
        /\ t.payment_method \in {"pix", "credit_card", "debit_card", "boleto"}

\* regular rows and both kinds of injected rows are committed
C4_Witness ==
    /\ \E t \in db.transactions : t.amount = HighValueAmount
    /\ \E t \in db.transactions : t.status = "refunded"
    /\ \E t \in db.transactions : t.payment_method = "boleto" /\ t.status = "approved"

\* C5: get_kpis on a provisioned store returns approval_rate = 100 *
\* approved / total (to two decimals), and 0 when there is no transaction.
C5_ApprovalRate ==
    (view.op = "get_kpis" /\ Readable(db)) =>
        /\ ~view.raised
        /\ LET total == Cardinality(db.transactions)
               approved == Cardinality({t \in db.transactions : t.status = "approved"})
               rate == view.out.approval_rate
           IN  /\ ~rate.isNull
               /\ IF total = 0
                  THEN rate.v = 0
                  ELSE 2 * Abs(rate.v * total - 100 * 100 * approved) <= total

\* C6: a run of the dashboard over a provisioned store does not end in an
\* exception.
C6_RenderNeverFails ==
    (view.op = "dashboard" /\ Readable(db)) => ~view.raised

RECURSIVE SumTotals(_)
SumTotals(rows) ==
    IF rows = <<>> THEN 0 ELSE Head(rows).total_transactions + SumTotals(Tail(rows))

\* C7: the total_transactions of get_daily_summary(N) add up to the number of
\* transactions dated on or after the day N days before the day of the call,
\* and the rows are by strictly descending date.
C7_DailyTotals ==
    IsAnswer("get_daily_summary") =>
        LET days == view.args[1]
            out == view.out
        IN  /\ SumTotals(out) =
                   Cardinality({t \in db.transactions :
                       DateOf(t.transaction_date) >= DateOf(now) - days})
            /\ \A a, b \in 1..Len(out) : a < b => out[a].date > out[b].date

\* a 30-day summary of several dates, one of them with two transactions or
\* more, over a store that also holds transactions older than the window
C7_Witness ==
    /\ IsAnswer("get_daily_summary")
    /\ view.args = <<30>>
    /\ Len(view.out) >= 2
    /\ \E k \in 1..Len(view.out) : view.out[k].total_transactions >= 2
    /\ \E t \in db.transactions : DateOf(t.transaction_date) < DateOf(now) - 30

\* C8: in every row of get_daily_summary the four status counts add up to
\* total_transactions, and total_volume is the sum of the amounts of the
\* approved transactions of that date.
C8_DailyRows ==
    IsAnswer("get_daily_summary") =>
        \A k \in 1..Len(view.out) :
            LET row == view.out[k] IN
            /\ row.approved + row.declined + row.pending + row.refunded
                   = row.total_transactions
            /\ row.total_volume =
                   SumAmount({t \in db.transactions :
                       /\ DateOf(t.transaction_date) = row.date
                       /\ t.status = "approved"})

\* a row of a date that has approved and not approved transactions
C8_Witness ==
    /\ IsAnswer("get_daily_summary")
    /\ \E k \in 1..Len(view.out) :
           /\ view.out[k].approved >= 1
           /\ view.out[k].approved < view.out[k].total_transactions

ApprovedVolume(mid) ==
    SumAmount({t \in db.transactions : t.merchant_id = mid /\ t.status = "approved"})

\* C9: get_top_merchants(N), N >= 0, returns at most N rows, of distinct
\* merchants, by descending volume; each volume is the sum of the merchant's
\* approved amounts, and no merchant left out has more than one returned.
C9_TopMerchants ==
    IsAnswer("get_top_merchants") =>
        LET n == view.args[1]
            out == view.out
            returned == {out[k].merchant : k \in 1..Len(out)}
        IN  /\ Len(out) <= n
            /\ \A a, b \in 1..Len(out) :
                   a < b => /\ out[a].merchant # out[b].merchant
                            /\ out[a].total_volume >= out[b].total_volume
            /\ \A k \in 1..Len(out) :
                   /\ \E m \in db.merchants : m.id = out[k].merchant
                   /\ out[k].total_volume = ApprovedVolume(out[k].merchant)
            /\ \A m \in db.merchants :
                   m.id \notin returned =>
                       \A k \in 1..Len(out) : ApprovedVolume(m.id) <= out[k].total_volume

\* the top 1 of two merchants with approved transactions
C9_Witness ==
    /\ IsAnswer("get_top_merchants")
    /\ view.args = <<1>>
    /\ Len(view.out) = 1
    /\ \E m \in db.merchants :
           m.id # view.out[1].merchant /\ ApprovedVolume(m.id) > 0

\* C10: the high-value answer of get_anomalies(T, F) holds only transactions
\* of amount > T, at most 50 of them, by descending amount; when the last run
\* of main succeeded, it holds the injected 25000.00 row at T = 10000.
C10_HighValue ==
    IsAnswer("get_anomalies") =>
        LET T == view.args[1]
            out == view.out.high
        IN  /\ \A k \in 1..Len(out) : out[k] \in db.transactions /\ out[k].amount > T
            /\ Len(out) <= AnomalyLimit
            /\ \A a, b \in 1..Len(out) : a < b => out[a].amount >= out[b].amount
            /\ (outcome.status = "ok" /\ T = DefaultThresholdAmount) =>
                   \E k \in 1..Len(out) : out[k].amount = HighValueAmount

\* after a successful run more than 50 transactions exceed T and 50 are shown
C10_Witness ==
    /\ IsAnswer("get_anomalies")
    /\ outcome.status = "ok"
    /\ Cardinality({t \in db.transactions : t.amount > view.args[1]}) > AnomalyLimit
    /\ Len(view.out.high) = AnomalyLimit

\* the customers that hold a whole burst of generate_anomalies made at now
BurstCustomers ==
    {c \in Ids(db.customers) :
        \A k \in 0..(BurstSize - 1) :
            \E t \in db.transactions :
                /\ t.customer_id = c
                /\ t.transaction_date = (now - BurstAge) + k * BurstSpacing}

GroupCount(c, w) ==
    Cardinality({t \in db.transactions :
                    t.customer_id = c /\ HourWindow(t.transaction_date) = w})

\* C11 (first part): the high-frequency answer of get_anomalies(T, F) holds
\* only (customer, hour window) groups of the store with their count, which
\* is >= F, no group twice, at most 50 of them, by descending count.
C11_FrequencyGroups ==
    IsAnswer("get_anomalies") =>
        LET F == view.args[2]
            out == view.out.freq
        IN  /\ \A k \in 1..Len(out) :
                   /\ out[k].transactions_count
                          = GroupCount(out[k].customer_id, out[k].hour_window)
                   /\ out[k].transactions_count >= F
            /\ Len(out) <= AnomalyLimit
            /\ \A a, b \in 1..Len(out) :
                   a < b => /\ out[a].transactions_count >= out[b].transactions_count
                            /\ <<out[a].customer_id, out[a].hour_window>>
                                   # <<out[b].customer_id, out[b].hour_window>>

\* C11: the high-frequency answer is as above and, when the last run of main
\* succeeded, the customer of the injected burst is in it at F = 5.
C11_HighFrequency ==
    /\ C11_FrequencyGroups
    /\ (IsAnswer("get_anomalies") /\ outcome.status = "ok"
            /\ view.args[2] = DefaultThresholdFrequency) =>
           \E c \in BurstCustomers :
               \E k \in 1..Len(view.out.freq) : view.out.freq[k].customer_id = c

\* C12: create_database, run on a store in any state (absent, provisioned,
\* populated), leaves exactly three tables, five indexes and two views, no
\* row in any table and the id counters at their start; so running it again
\* gives the same store.
C12_FullReset ==
    (fileExists /\ runs = 0) =>
        /\ db.schema.tables = {"customers", "merchants", "transactions"}
        /\ Cardinality(db.schema.indexes) = 5
        /\ Cardinality(db.schema.views) = 2
        /\ db.customers = {} /\ db.merchants = {} /\ db.transactions = {}
        /\ db.seq = [customers |-> 0, merchants |-> 0, transactions |-> 0]
        /\ conn = db

\* create_database has just replaced a populated store
C12_Witness ==
    /\ fileExists
    /\ runs = 0
    /\ prior.customers # {} /\ prior.merchants # {} /\ prior.transactions # {}
    /\ db.transactions = {}

Unique(rows, col) ==
    \A r1, r2 \in rows : r1[col] = r2[col] => r1 = r2

\* C13: an insert that a UNIQUE column refuses adds no row and no id and the
\* loop goes on: the customers and merchants of the connection are those of
\* the ids collected, at most one per iteration done, with no e-mail or
\* document twice; the file never holds more customers or merchants than
\* the counts requested.
C13_SkipOnConflict ==
    /\ Cardinality(db.customers) <= NumCustomers
    /\ Cardinality(db.merchants) <= NumMerchants
    /\ \A d \in {db, conn} :
           /\ Unique(d.customers, "email")
           /\ Unique(d.customers, "document")
           /\ Unique(d.merchants, "document")
    /\ pc = "customers" =>
           /\ Ids(conn.customers) = {customer_ids[k] : k \in 1..Len(customer_ids)}
           /\ Cardinality(conn.customers) <= i
    /\ pc = "merchants" =>
           /\ Ids(conn.customers) = {customer_ids[k] : k \in 1..Len(customer_ids)}
           /\ Ids(conn.merchants) = {merchant_ids[k] : k \in 1..Len(merchant_ids)}
           /\ Cardinality(conn.merchants) <= i

\* a second run of main succeeded although an insert of a customer and an
\* insert of a merchant were refused
C13_Witness ==
    /\ pc = "idle"
    /\ outcome.status = "ok"
    /\ runs = 2
    /\ db.customers # {}
    /\ Cardinality(db.customers) < NumCustomers
    /\ Cardinality(db.merchants) < NumMerchants

CategoryOf(mid) == (CHOOSE m \in db.merchants : m.id = mid).category

StoredOfCategory(cat) ==
    {t \in db.transactions :
        /\ \E m \in db.merchants : m.id = t.merchant_id
        /\ CategoryOf(t.merchant_id) = cat}

\* the rows of get_category_performance are one per category that has
\* transactions, by descending total_volume
C14_Grouping ==
    LET out == view.out IN
    /\ {out[k].category : k \in 1..Len(out)}
           = {cat \in CATEGORIES : StoredOfCategory(cat) # {}}
    /\ \A a, b \in 1..Len(out) :
           a < b => /\ out[a].category # out[b].category
                    /\ out[a].total_volume >= out[b].total_volume

\* C14 (as stated): get_category_performance groups by merchant category,
\* orders by volume descending, and a category's total_volume is the sum of
\* the amounts of its transactions of every status.
C14_AllStatusVolume ==
    IsAnswer("get_category_performance") =>
        /\ C14_Grouping
        /\ \A k \in 1..Len(view.out) :
               view.out[k].total_volume = SumAmount(StoredOfCategory(view.out[k].category))

\* C14 (amended): get_category_performance groups by merchant category,
\* orders by volume descending, and a category's total_volume is the sum of
\* the amounts of its approved transactions, while total_transactions counts
\* its transactions of every status.
C14_ApprovedVolume ==
    IsAnswer("get_category_performance") =>
        /\ C14_Grouping
        /\ \A k \in 1..Len(view.out) :
               LET all == StoredOfCategory(view.out[k].category) IN
               /\ view.out[k].total_volume
                      = SumAmount({t \in all : t.status = "approved"})
               /\ view.out[k].total_transactions = Cardinality(all)

\* two categories, one of them with approved and not approved transactions
C14_Witness ==
    /\ IsAnswer("get_category_performance")
    /\ Len(view.out) = 2
    /\ \E k \in 1..Len(view.out) :
           \E t1, t2 \in StoredOfCategory(view.out[k].category) :
               t1.status = "approved" /\ t2.status # "approved"

\* C15: get_transactions_filtered returns transactions that satisfy every
\* filter given (a filter not given, or 'Todos', restricts nothing), each
\* once, by descending event time; all of them when they are at most limit,
\* else the limit most recent of them.
C15_Filtered ==
    IsAnswer("get_transactions_filtered") =>
        LET a == view.args
            out == view.out
            given(x) == x # NoText /\ x # "Todos"
            M == {t \in db.transactions :
                     /\ a[1] # NoDate => DateOf(t.transaction_date) >= a[1]
                     /\ a[2] # NoDate => DateOf(t.transaction_date) <= a[2]
                     /\ given(a[3]) => t.payment_method = a[3]
                     /\ given(a[4]) => t.status = a[4]}
            returned == {out[k] : k \in 1..Len(out)}
        IN  /\ returned \subseteq M
            /\ Cardinality(returned) = Len(out)
            /\ Len(out) = IF Cardinality(M) <= a[5] THEN Cardinality(M) ELSE a[5]
            /\ \A k1, k2 \in 1..Len(out) :
                   k1 < k2 => out[k1].transaction_date >= out[k2].transaction_date
            /\ \A t \in M \ returned :
                   \A k \in 1..Len(out) : t.transaction_date <= out[k].transaction_date

\* dates on both sides leave transactions out, and the limit cuts the rest
C15_Witness ==
    /\ IsAnswer("get_transactions_filtered")
    /\ view.args[1] # NoDate /\ view.args[2] # NoDate
    /\ Len(view.out) = view.args[5]
    /\ Len(view.out) >= 2
    /\ \E t \in db.transactions : DateOf(t.transaction_date) > view.args[2]
    /\ \E t \in db.transactions :
           /\ DateOf(t.transaction_date) <= view.args[2]
           /\ DateOf(t.transaction_date) >= view.args[1]
           /\ \A k \in 1..Len(view.out) : view.out[k] # t

\* C16: a regular transaction drawn with day offset days_ago is dated
\* days_ago days before the day of generation (offset 0: the day of
\* generation), every stored regular transaction is dated within the 90 days
\* up to the day of generation, and its time of day is from 06:00 to 23:59,
\* whatever the time of day of generation.
C16_EventTime ==
    LET daytime(ts) == /\ TimeOfDay(ts) >= 6 * MinutesPerHour
                       /\ TimeOfDay(ts) <= 23 * MinutesPerHour + 59
    IN  /\ (pc = "transactions" /\ customer_ids # <<>> /\ merchant_ids # <<>>) =>
               \A d \in TxDraws :
                   LET r == RegularRow(customer_ids, merchant_ids, start_date, d) IN
                   /\ DateOf(r.transaction_date) = DateOf(now) - d.days_ago
                   /\ daytime(r.transaction_date)
        /\ pc = "anomalies" =>
               \A t \in conn.transactions :
                   /\ DateOf(t.transaction_date) <= DateOf(now)
                   /\ DateOf(t.transaction_date) > DateOf(now) - WindowDays
                   /\ daytime(t.transaction_date)

QueryOps ==
    {"get_daily_summary", "get_payment_method_stats", "get_top_merchants",
     "get_hourly_distribution", "get_status_distribution",
     "get_category_performance", "get_anomalies", "get_kpis",
     "get_transactions_filtered"}

\* C17: a step in which one of the nine query functions is called, whatever
\* its arguments and whether it returns or raises, leaves the file's schema,
\* customers, merchants, transactions and id counters as they were.
C17_ReadOnly ==
    [][(view' # view /\ view'.op \in QueryOps) => (db' = db /\ conn' = conn)]_vars

\* each of the nine functions has been called on a populated store since it
\* was last written: here the last one answered
C17_Witness ==
    /\ view.op \in QueryOps
    /\ ~view.raised
    /\ view.op = "get_status_distribution"
    /\ Len(view.out) >= 2
    /\ db.customers # {} /\ db.merchants # {} /\ db.transactions # {}

\* C18: when the last run of main succeeded, the transactions table holds
\* exactly NUM_TRANSACTIONS + 11 rows (1 high-value and 10 burst rows added
\* to the requested ones), none of which was there before that run.
C18_Replace ==
    (pc = "idle" /\ outcome.status = "ok") =>
        /\ Cardinality(db.transactions) = NumTransactions + 11
        /\ Ids(db.transactions) \cap prior.transactions = {}

\* a run succeeded on a store that held the rows of an earlier run
C18_Witness ==
    /\ pc = "idle"
    /\ outcome.status = "ok"
    /\ Cardinality(prior.transactions) = RowsPerRun
    /\ Cardinality(db.transactions) = RowsPerRun

====
